---------------------------- MODULE Spec2Model ----------------------------
(***************************************************************************)
(* Model of JSONToCSV.py: the conversion of a JSON mapping of issue /      *)
(* pull-request records into a CSV table and a pickle file.                *)
(*                                                                         *)
(* Text is modelled as a sequence of one-character strings, so that the    *)
(* regular-expression scan of find_linked_issues and the " | " join/split  *)
(* of extract_data / convert_to_pickle are computed character by           *)
(* character.                                                              *)
(***************************************************************************)
EXTENDS Integers, Sequences, FiniteSets, TLC

VARIABLES
    pc,             \* position of the running code
    argc,           \* len(sys.argv)
    inputFile,      \* "ok", "missing" (open fails) or "invalid" (json.load fails)
    data,           \* the loaded JSON mapping, as a sequence of [id, pr] in key order
    idx,            \* module-level loop variable idx; 0 while unbound
    pos,            \* position of the iteration over data.keys()
    csvCreated,     \* the CSV file has been opened for writing
    csvRows,        \* data rows written to the CSV file (after the header)
    pickle_data,    \* the list built by convert_to_pickle
    pklCreated,     \* the pickle file has been opened for writing
    pklData,        \* the list dumped to the pickle file
    reports,        \* "Error processing entry ..." lines printed
    status,         \* exit status of the process; -1 while running
    body_text,      \* argument of find_linked_issues
    found,          \* result of find_linked_issues
    pr,             \* argument of extract_data
    row_data,       \* result of extract_data
    formatted_data  \* the pickle entry built from row_data

vars == << pc, argc, inputFile, data, idx, pos, csvCreated, csvRows,
           pickle_data, pklCreated, pklData, reports, status,
           body_text, found, pr, row_data, formatted_data >>

runVars == << argc, inputFile, data, idx, pos, csvCreated, csvRows,
              pickle_data, pklCreated, pklData, reports, status >>

-----------------------------------------------------------------------------
(* Bounds *)

MaxRecords == 3     \* records in the input mapping
MaxFrags == 4       \* text fragments a body is built from
MaxCommits == 3     \* commits of one record
MaxComments == 2    \* comments of one record

-----------------------------------------------------------------------------
(* Text helpers *)

Min(S) == CHOOSE x \in S : \A y \in S : x <= y

Max(S) == CHOOSE x \in S : \A y \in S : x >= y

\* re.IGNORECASE: letters compare by their lower-case form
LowerMap ==
    "A" :> "a" @@ "B" :> "b" @@ "C" :> "c" @@ "D" :> "d" @@ "E" :> "e" @@
    "F" :> "f" @@ "G" :> "g" @@ "H" :> "h" @@ "I" :> "i" @@ "J" :> "j" @@
    "K" :> "k" @@ "L" :> "l" @@ "M" :> "m" @@ "N" :> "n" @@ "O" :> "o" @@
    "P" :> "p" @@ "Q" :> "q" @@ "R" :> "r" @@ "S" :> "s" @@ "T" :> "t" @@
    "U" :> "u" @@ "V" :> "v" @@ "W" :> "w" @@ "X" :> "x" @@ "Y" :> "y" @@
    "Z" :> "z"

LowerChar(c) == IF c \in DOMAIN LowerMap THEN LowerMap[c] ELSE c

Lower(s) == [i \in 1..Len(s) |-> LowerChar(s[i])]

\* \d
IsDigit(c) == c \in {"0", "1", "2", "3", "4", "5", "6", "7", "8", "9"}

\* the complement of \S
IsSpace(c) == c \in {" ", "\n", "\r", "\t", "\f"}

\* s[p:p+len(lit)] == lit
HasAt(s, p, lit) ==
    /\ p >= 1
    /\ p + Len(lit) - 1 <= Len(s)
    /\ SubSeq(s, p, p + Len(lit) - 1) = lit

\* DigitRun with \d in place of \d+: a single digit
DigitRunOne(s, p) ==
    IF p <= Len(s) /\ IsDigit(s[p]) THEN 1 ELSE 0

\* the number of consecutive digits of s from position p on (greedy \d+)
DigitRun(s, p) ==
    LET stops == {j \in p..Len(s) : ~IsDigit(s[j])}
    IN  IF p > Len(s) THEN 0
        ELSE IF stops = {} THEN Len(s) - p + 1
        ELSE Min(stops) - p

\* the last position of the run of non-space characters that starts at p,
\* p - 1 when there is none (greedy \S+)
NonSpaceEnd(s, p) ==
    LET stops == {j \in p..Len(s) : IsSpace(s[j])}
    IN  IF p > Len(s) THEN p - 1
        ELSE IF stops = {} THEN Len(s)
        ELSE Min(stops) - 1

\* clean_text: None becomes "", \n and \r become a space
None == << "None" >>

clean_text(text) ==
    IF text = None THEN << >>
    ELSE [i \in 1..Len(text) |->
            IF text[i] = "\n" \/ text[i] = "\r" THEN " " ELSE text[i]]

-----------------------------------------------------------------------------
(* find_linked_issues *)

keywords ==
  << <<"c","l","o","s","e","s">>,
     <<"f","i","x","e","s">>,
     <<"r","e","s","o","l","v","e","s">>,
     <<"i","n">>,
     <<"s","o","l","v","e","s">>,
     <<"a","d","d","r","e","s","s","e","s">>,
     <<"c","o","m","p","l","e","t","e","s">>,
     <<"c","o","n","n","e","c","t","s">>,
     <<"r","e","l","a","t","e","d"," ","t","o">>,
     <<"r","e","v","e","r","t","s">>,
     <<"i","m","p","l","e","m","e","n","t","s">>,
     <<"r","e","f","e","r","e","n","c","e","s">>,
     <<"i","n","c","o","r","p","o","r","a","t","e","s">>,
     <<"u","p","d","a","t","e","s">>,
     <<"h","a","n","d","l","e","s">>,
     <<"p","a","t","c","h","e","s">>,
     <<"a","d","d","s">>,
     <<"m","o","d","i","f","i","e","s">>,
     <<"e","n","h","a","n","c","e","s">>,
     <<"i","m","p","r","o","v","e","s">>,
     <<"a","d","j","u","s","t","s">> >>

GitHubPrefix ==
    <<"h","t","t","p","s",":","/","/","g","i","t","h","u","b",".","c","o","m","/">>

IssuesPath == <<"/","i","s","s","u","e","s","/">>

\* The group (#\d+|https://github\.com/\S+/issues/\d+) tried at position p of
\* s (low is s in lower case): the length of the text it matches, 0 if it
\* does not match.  \S+ is greedy and backs off to the last place from which
\* /issues/\d+ still matches.
GroupLen(s, low, p) ==
    IF p > Len(s) THEN 0
    ELSE IF s[p] = "#" THEN
        (IF DigitRun(s, p + 1) > 0 THEN 1 + DigitRun(s, p + 1) ELSE 0)
    ELSE IF HasAt(low, p, GitHubPrefix) THEN
        LET u    == p + Len(GitHubPrefix)
            r    == NonSpaceEnd(s, u)
            ends == {e \in u..r : /\ HasAt(low, e + 1, IssuesPath)
                                  /\ DigitRun(s, e + 1 + Len(IssuesPath)) > 0}
        IN  IF ends = {} THEN 0
            ELSE LET e == Max(ends)
                     d == e + 1 + Len(IssuesPath)
                 IN  (d + DigitRun(s, d)) - p
    ELSE 0

\* the length of the match of fr'{keyword} (...)' at position p, 0 if none
PatternLen(keyword, s, low, p) ==
    LET g == p + Len(keyword) + 1
    IN  IF /\ HasAt(low, p, keyword)
           /\ g - 1 <= Len(s)
           /\ s[g - 1] = " "
           /\ GroupLen(s, low, g) > 0
        THEN Len(keyword) + 1 + GroupLen(s, low, g)
        ELSE 0

\* re.findall(pattern, body_text, re.IGNORECASE): the group of every match,
\* scanning left to right and resuming after the end of each match
RECURSIVE FindAllFrom(_, _, _, _)
FindAllFrom(keyword, s, low, p) ==
    IF p > Len(s) THEN << >>
    ELSE LET n == PatternLen(keyword, s, low, p)
             g == p + Len(keyword) + 1
         IN  IF n > 0
             THEN << SubSeq(s, g, p + n - 1) >> \o FindAllFrom(keyword, s, low, p + n)
             ELSE FindAllFrom(keyword, s, low, p + 1)

findall(keyword, s) == FindAllFrom(keyword, s, Lower(s), 1)

\* KeywordLoop that records a reference only under the first keyword
\* that matches it
RECURSIVE KeywordLoopDedup(_, _, _)
KeywordLoopDedup(k, s, acc) ==
    IF k > Len(keywords) THEN acc
    ELSE LET matches == SelectSeq(findall(keywords[k], s),
                                  LAMBDA m : \A i \in 1..Len(acc.linked_issues) :
                                                acc.linked_issues[i] # m)
         IN  KeywordLoopDedup(k + 1, s,
                [linked_issues |-> acc.linked_issues \o matches,
                 description_keywords |-> acc.description_keywords \o
                     [i \in 1..Len(matches) |-> keywords[k]]])

\* the keyword loop of find_linked_issues from keyword number k on
RECURSIVE KeywordLoop(_, _, _)
KeywordLoop(k, s, acc) ==
    IF k > Len(keywords) THEN acc
    ELSE LET matches == findall(keywords[k], s)
         IN  KeywordLoop(k + 1, s,
                [linked_issues |-> acc.linked_issues \o matches,
                 description_keywords |-> acc.description_keywords \o
                     [i \in 1..Len(matches) |-> keywords[k]]])

find_linked_issues(s) ==
    KeywordLoop(1, s, [linked_issues |-> << >>, description_keywords |-> << >>])

-----------------------------------------------------------------------------
(* extract_data *)

Sep == << " ", "|", " " >>

\* " | ".join(parts)
RECURSIVE Join(_)
Join(parts) ==
    IF Len(parts) = 0 THEN << >>
    ELSE IF Len(parts) = 1 THEN parts[1]
    ELSE parts[1] \o Sep \o Join(Tail(parts))

\* s.split(" | ") continued from position p with the piece cur begun: the
\* separator is searched left to right and every occurrence ends a piece
RECURSIVE SplitFrom(_, _, _)
SplitFrom(s, p, cur) ==
    IF p > Len(s) THEN << cur >>
    ELSE IF HasAt(s, p, Sep) THEN << cur >> \o SplitFrom(s, p + Len(Sep), << >>)
    ELSE SplitFrom(s, p + 1, Append(cur, s[p]))

Split(s) == SplitFrom(s, 1, << >>)

\* datetime.strptime(commit_date, "%Y-%m-%dT%H:%M:%SZ") on the date strings
\* of the model: the parsed instant, or ValueError
ValueError == -1

strptime(commit_date) ==
    CASE commit_date = "2024-01-01T00:00:00Z" -> 20240101
      [] commit_date = "2024-03-01T00:00:00Z" -> 20240301
      [] commit_date = "2024-03-01"           -> ValueError
      [] commit_date = "yesterday"            -> ValueError
      [] OTHER                                -> ValueError

\* one pass of the loop over pr["commits"].values(): acc holds the lists
\* commits and files_changed
CommitStep(acc, commit) ==
    IF commit.date # "" /\ strptime(commit.date) = ValueError
    THEN acc    \* continue: the rest of the loop body is skipped
    ELSE [commits |->
             IF commit.date # ""
             THEN Append(acc.commits,
                         << strptime(commit.date), commit.sha, commit.author_name >>)
             ELSE acc.commits,
          files_changed |->
             IF commit.files # << >>
             THEN acc.files_changed \o commit.files
             ELSE acc.files_changed]

RECURSIVE CommitLoop(_, _)
CommitLoop(cs, acc) ==
    IF cs = << >> THEN acc
    ELSE CommitLoop(Tail(cs), CommitStep(acc, Head(cs)))

Reverse(s) == [i \in 1..Len(s) |-> s[Len(s) + 1 - i]]

\* x put into an ascending list behind every element whose key is not larger
InsertAsc(sorted, x) ==
    LET before == {i \in 1..Len(sorted) : sorted[i][1] <= x[1]}
        n      == IF before = {} THEN 0 ELSE Max(before)
    IN  SubSeq(sorted, 1, n) \o << x >> \o SubSeq(sorted, n + 1, Len(sorted))

RECURSIVE SortAsc(_, _)
SortAsc(s, sorted) ==
    IF s = << >> THEN sorted
    ELSE SortAsc(Tail(s), InsertAsc(sorted, Head(s)))

\* SortReverse as an ascending sort followed by a reversal, which turns
\* the order of equal keys around
SortThenReverse(s) == Reverse(SortAsc(s, << >>))

\* list.sort(key=lambda x: x[0], reverse=True): the list is reversed, sorted
\* ascending by a stable sort, and reversed again
SortReverse(s) == Reverse(SortAsc(Reverse(s), << >>))

\* NewestCommitHash taking the other end of the list
NewestCommitHashLast(sorted_commit_hashes) ==
    IF Len(sorted_commit_hashes) > 0
    THEN sorted_commit_hashes[Len(sorted_commit_hashes)] ELSE << >>

\* sorted_commit_hashes[0] if sorted_commit_hashes else ""
NewestCommitHash(sorted_commit_hashes) ==
    IF Len(sorted_commit_hashes) > 0 THEN sorted_commit_hashes[1] ELSE << >>

\* the comment loop: the cleaned body of every comment
CommentBodies(cs) == [i \in 1..Len(cs) |-> clean_text(cs[i])]

\* the value of a key that data does not have
KeyMissing == << "KeyMissing" >>

extract_data(p) ==
    LET body_str  == clean_text(p.body)
        refs      == find_linked_issues(body_str)
        comments  == CommentBodies(p.comments)
        loop      == CommitLoop(p.commits, [commits |-> << >>, files_changed |-> << >>])
        commits   == SortReverse(loop.commits)
        sorted_commit_hashes == [i \in 1..Len(commits) |-> commits[i][2]]
    IN  [issue                    |-> clean_text(p.title),
         pull_request             |-> p.is_pr,
         issue_text               |-> Join(refs.linked_issues),
         issue_description        |-> Join(refs.description_keywords),
         pull_request_text        |-> clean_text(p.title),
         pull_request_description |-> clean_text(p.body),
         created_at               |-> clean_text(p.created_at),
         closed_at                |-> clean_text(p.closed_at),
         userlogin                |-> clean_text(p.userlogin),
         comments                 |-> Join(comments),
         files_changed            |-> Join(loop.files_changed),
         commit_hashes            |-> Join(sorted_commit_hashes),
         newest_commit_hash       |-> NewestCommitHash(sorted_commit_hashes),
         author_name              |-> IF Len(commits) > 0
                                      THEN commits[1][3] ELSE KeyMissing]

\* extract_data(pr) raises: pr is not a mapping, so pr.get fails
Raises(p) == p.kind # "dict"

\* row_data.get("author_name", "")
GetAuthor(row) == IF row.author_name = KeyMissing THEN << >> ELSE row.author_name

\* the row written to the CSV file
CsvRow(i, pr_id, row) ==
    [idx                      |-> i,
     issue                    |-> pr_id,
     pull_request             |-> row.pull_request,
     issue_text               |-> row.issue_text,
     issue_description        |-> row.issue_description,
     pull_request_text        |-> row.pull_request_text,
     pull_request_description |-> row.pull_request_description,
     created_at               |-> row.created_at,
     closed_at                |-> row.closed_at,
     userlogin                |-> row.userlogin,
     author_name              |-> GetAuthor(row),
     comments                 |-> row.comments,
     files_changed            |-> row.files_changed,
     commit_hashes            |-> row.commit_hashes,
     newest_commit_hash       |-> row.newest_commit_hash]

\* formatted_data of convert_to_pickle
FormatPickle(i, pr_id, row) ==
    [idx                      |-> i,
     issue                    |-> pr_id,
     pull_request             |-> row.pull_request,
     issue_text               |-> row.issue_text,
     issue_description        |-> row.issue_description,
     pull_request_text        |-> row.pull_request_text,
     pull_request_description |-> row.pull_request_description,
     created_at               |-> row.created_at,
     closed_at                |-> row.closed_at,
     userlogin                |-> row.userlogin,
     author_name              |-> GetAuthor(row),
     comments                 |-> Split(row.comments),
     files_changed            |-> Split(row.files_changed),
     commit_hashes            |-> Split(row.commit_hashes),
     newest_commit_hash       |-> row.newest_commit_hash]

-----------------------------------------------------------------------------
(* Inputs *)

\* the value of a variable the running code has not assigned
Unset == [unset |-> TRUE]

RECURSIVE Concat(_)
Concat(parts) ==
    IF parts = << >> THEN << >> ELSE Head(parts) \o Concat(Tail(parts))

SeqsUpTo(S, n) == UNION {[1..m -> S] : m \in 0..n}

Url3 ==
    <<"h","t","t","p","s",":","/","/","g","i","t","h","u","b",".","c","o","m",
      "/","o","/","r","/","i","s","s","u","e","s","/","3">>

Url34 == Url3 \o << "4" >>

Fragments ==
    { <<"F","i","x","e","s"," ">>,
      <<"r","e","s","o","l","v","e","s"," ">>,
      <<"i","n"," ">>,
      <<"#","5"," ">>,
      <<"#","1","2">>,
      Url3 }

\* "fixes #12 and closes https://github.com/o/r/issues/34"
ExampleBody ==
    <<"f","i","x","e","s"," ","#","1","2"," ","a","n","d"," ",
      "c","l","o","s","e","s"," ">> \o Url34

Bodies == {Concat(f) : f \in SeqsUpTo(Fragments, MaxFrags)} \cup {ExampleBody}

Digits == << "1", "2", "3", "4", "5", "6", "7", "8", "9" >>

\* the hash and the author of the commit at position k of a record
ShaAt(k) == << "s", Digits[k] >>

AuthorAt(k) == << "A", Digits[k] >>

Dates == { "", "2024-03-01", "2024-01-01T00:00:00Z", "2024-03-01T00:00:00Z" }

FileLists == { << >>, << <<"f">> >>, << <<"g">>, <<"f">> >> }

CommitSeqs ==
    { [k \in 1..Len(c) |-> [date        |-> c[k][1],
                            sha         |-> ShaAt(k),
                            author_name |-> AuthorAt(k),
                            files       |-> c[k][2]]] :
      c \in SeqsUpTo(Dates \X FileLists, MaxCommits) }

CommentTexts ==
    { <<"a">>, <<"a"," ","|"," ","b">>, <<"a","\n","b">>, None }

CommentSeqs == SeqsUpTo(CommentTexts, MaxComments)

OwnAuthors == { << >>, <<"o","w","n">> }

Record(body, comments, commits, own) ==
    [kind        |-> "dict",
     title       |-> <<"t">>,
     body        |-> body,
     is_pr       |-> TRUE,
     created_at  |-> <<"2","0","2","4">>,
     closed_at   |-> None,
     userlogin   |-> <<"u">>,
     author_name |-> own,
     comments    |-> comments,
     commits     |-> commits]

\* a JSON value that is not a mapping
ListRecord == [Record(<< >>, << >>, << >>, << >>) EXCEPT !.kind = "list"]

ExtractBodies == { None, << >>, <<"F","i","x","e","s","\n","#","5">> }

ExtractRecords ==
    {Record(b, c, << >>, << >>) : b \in ExtractBodies, c \in CommentSeqs}
    \cup {Record(<< >>, << >>, c, o) : c \in CommitSeqs, o \in OwnAuthors}

RunShapes ==
    { Record(<<"F","i","x","e","s","\n","#","5">>,
             << <<"a">>, <<"a","\n","b">> >>,
             << [date |-> "2024-01-01T00:00:00Z", sha |-> ShaAt(1),
                 author_name |-> AuthorAt(1), files |-> << <<"f">> >>],
                [date |-> "2024-03-01T00:00:00Z", sha |-> ShaAt(2),
                 author_name |-> AuthorAt(2), files |-> << <<"g">>, <<"f">> >>] >>,
             << >>),
      Record(None, << >>, << >>, <<"o","w","n">>),
      ListRecord }

\* the keys of the input mapping, in the order of the file
PrIds == << "40", "37", "34", "31", "28", "25", "22", "19" >>

AllData ==
    { [k \in 1..Len(shapes) |-> [id |-> PrIds[k], pr |-> shapes[k]]] :
      shapes \in SeqsUpTo(RunShapes, MaxRecords) }

-----------------------------------------------------------------------------
(* The main script *)

RunIdle ==
    /\ argc = 2
    /\ inputFile = "ok"
    /\ data = << >>
    /\ idx = 0
    /\ pos = 0
    /\ csvCreated = FALSE
    /\ csvRows = << >>
    /\ pickle_data = << >>
    /\ pklCreated = FALSE
    /\ pklData = << >>
    /\ reports = << >>
    /\ status = -1

FunctionsIdle ==
    /\ body_text = << >>
    /\ found = Unset
    /\ pr = Unset
    /\ row_data = Unset
    /\ formatted_data = Unset

Init ==
    /\ pc = "start"
    /\ argc \in {1, 2, 3}
    /\ inputFile \in {"ok", "missing", "invalid"}
    /\ data = << >>
    /\ idx = 0
    /\ pos = 0
    /\ csvCreated = FALSE
    /\ csvRows = << >>
    /\ pickle_data = << >>
    /\ pklCreated = FALSE
    /\ pklData = << >>
    /\ reports = << >>
    /\ status = -1
    /\ FunctionsIdle

\* if len(sys.argv) != 2: usage, sys.exit(1)
CheckArgs ==
    /\ pc = "start"
    /\ IF argc # 2
       THEN pc' = "exit" /\ status' = 1
       ELSE pc' = "read" /\ status' = status
    /\ UNCHANGED << argc, inputFile, data, idx, pos, csvCreated, csvRows,
                    pickle_data, pklCreated, pklData, reports,
                    body_text, found, pr, row_data, formatted_data >>

\* ReadJson with the CSV file opened before the input is read
ReadJsonAfterOpen ==
    /\ pc = "read"
    /\ csvCreated' = TRUE
    /\ IF inputFile # "ok"
       THEN pc' = "exit" /\ status' = 1 /\ data' = data
       ELSE pc' = "open_csv" /\ status' = status /\ data' \in AllData
    /\ UNCHANGED << argc, inputFile, idx, pos, csvRows,
                    pickle_data, pklCreated, pklData, reports,
                    body_text, found, pr, row_data, formatted_data >>

\* open(json_filename) and json.load(f); either may raise, and nothing
\* catches it
ReadJson ==
    /\ pc = "read"
    /\ IF inputFile # "ok"
       THEN pc' = "exit" /\ status' = 1 /\ data' = data
       ELSE pc' = "open_csv" /\ status' = status /\ data' \in AllData
    /\ UNCHANGED << argc, inputFile, idx, pos, csvCreated, csvRows,
                    pickle_data, pklCreated, pklData, reports,
                    body_text, found, pr, row_data, formatted_data >>

\* open(csv_filename, 'w') and writer.writerow(header)
OpenCsv ==
    /\ pc = "open_csv"
    /\ csvCreated' = TRUE
    /\ csvRows' = << >>
    /\ pos' = 1
    /\ pc' = "csv_rows"
    /\ UNCHANGED << argc, inputFile, data, idx, pickle_data, pklCreated,
                    pklData, reports, status,
                    body_text, found, pr, row_data, formatted_data >>

\* WriteCsvRow without the try/except: the exception of extract_data ends
\* the run
WriteCsvRowUncaught ==
    /\ pc = "csv_rows"
    /\ pos <= Len(data)
    /\ idx' = pos
    /\ IF Raises(data[pos].pr)
       THEN /\ pc' = "exit" /\ status' = 1
            /\ csvRows' = csvRows /\ pos' = pos
       ELSE /\ csvRows' = Append(csvRows,
                                 CsvRow(pos, data[pos].id, extract_data(data[pos].pr)))
            /\ pc' = pc /\ status' = status /\ pos' = pos + 1
    /\ UNCHANGED << argc, inputFile, data, csvCreated, pickle_data,
                    pklCreated, pklData, reports,
                    body_text, found, pr, row_data, formatted_data >>

\* one pass of the loop that writes the data rows
WriteCsvRow ==
    /\ pc = "csv_rows"
    /\ pos <= Len(data)
    /\ idx' = pos
    /\ IF Raises(data[pos].pr)
       THEN /\ reports' = Append(reports, [pass |-> "csv", id |-> data[pos].id])
            /\ csvRows' = csvRows
       ELSE /\ csvRows' = Append(csvRows,
                                 CsvRow(pos, data[pos].id, extract_data(data[pos].pr)))
            /\ reports' = reports
    /\ pos' = pos + 1
    /\ UNCHANGED << pc, argc, inputFile, data, csvCreated, pickle_data,
                    pklCreated, pklData, status,
                    body_text, found, pr, row_data, formatted_data >>

\* print(f"Processed {idx} entries."): idx is unbound when the loop had no
\* pass, the NameError ends the run; otherwise convert_to_pickle is called
PrintProcessed ==
    /\ pc = "csv_rows"
    /\ pos > Len(data)
    /\ IF idx = 0
       THEN pc' = "exit" /\ status' = 1 /\ pos' = pos
       ELSE pc' = "pickle_rows" /\ status' = status /\ pos' = 1
    /\ UNCHANGED << argc, inputFile, data, idx, csvCreated, csvRows,
                    pickle_data, pklCreated, pklData, reports,
                    body_text, found, pr, row_data, formatted_data >>

\* PickleRow that numbers the entries it appends instead of the keys
PickleRowRenumbered ==
    /\ pc = "pickle_rows"
    /\ pos <= Len(data)
    /\ IF Raises(data[pos].pr)
       THEN /\ reports' = Append(reports, [pass |-> "pickle", id |-> data[pos].id])
            /\ pickle_data' = pickle_data
       ELSE /\ pickle_data' = Append(pickle_data,
                                     FormatPickle(Len(pickle_data) + 1, data[pos].id,
                                                  extract_data(data[pos].pr)))
            /\ reports' = reports
    /\ pos' = pos + 1
    /\ UNCHANGED << pc, argc, inputFile, data, idx, csvCreated, csvRows,
                    pklCreated, pklData, status,
                    body_text, found, pr, row_data, formatted_data >>

\* one pass of the loop of convert_to_pickle
PickleRow ==
    /\ pc = "pickle_rows"
    /\ pos <= Len(data)
    /\ IF Raises(data[pos].pr)
       THEN /\ reports' = Append(reports, [pass |-> "pickle", id |-> data[pos].id])
            /\ pickle_data' = pickle_data
       ELSE /\ pickle_data' = Append(pickle_data,
                                     FormatPickle(pos, data[pos].id,
                                                  extract_data(data[pos].pr)))
            /\ reports' = reports
    /\ pos' = pos + 1
    /\ UNCHANGED << pc, argc, inputFile, data, idx, csvCreated, csvRows,
                    pklCreated, pklData, status,
                    body_text, found, pr, row_data, formatted_data >>

\* open(pickle_file, 'wb') and pickle.dump(pickle_data, pf); the script ends
DumpPickle ==
    /\ pc = "pickle_rows"
    /\ pos > Len(data)
    /\ pklCreated' = TRUE
    /\ pklData' = pickle_data
    /\ status' = 0
    /\ pc' = "exit"
    /\ UNCHANGED << argc, inputFile, data, idx, pos, csvCreated, csvRows,
                    pickle_data, reports,
                    body_text, found, pr, row_data, formatted_data >>

Next ==
    \/ CheckArgs
    \/ ReadJson
    \/ OpenCsv
    \/ WriteCsvRow
    \/ PrintProcessed
    \/ PickleRow
    \/ DumpPickle

Spec == Init /\ [][Next]_vars

-----------------------------------------------------------------------------
(* find_linked_issues applied to a body *)

InitRefs ==
    /\ pc = "refs_call"
    /\ body_text \in Bodies
    /\ found = Unset
    /\ pr = Unset
    /\ row_data = Unset
    /\ formatted_data = Unset
    /\ RunIdle

FindLinkedIssues ==
    /\ pc = "refs_call"
    /\ found' = find_linked_issues(body_text)
    /\ pc' = "refs_return"
    /\ UNCHANGED << body_text, pr, row_data, formatted_data >>
    /\ UNCHANGED runVars

NextRefs == FindLinkedIssues

SpecRefs == InitRefs /\ [][NextRefs]_vars

-----------------------------------------------------------------------------
(* extract_data applied to a record, and the pickle entry made of it *)

InitExtract ==
    /\ pc = "extract_call"
    /\ pr \in ExtractRecords
    /\ row_data = Unset
    /\ formatted_data = Unset
    /\ body_text = << >>
    /\ found = Unset
    /\ RunIdle

ExtractData ==
    /\ pc = "extract_call"
    /\ row_data' = extract_data(pr)
    /\ pc' = "extracted"
    /\ UNCHANGED << body_text, found, pr, formatted_data >>
    /\ UNCHANGED runVars

FormatData ==
    /\ pc = "extracted"
    /\ formatted_data' = FormatPickle(1, PrIds[1], row_data)
    /\ pc' = "formatted"
    /\ UNCHANGED << body_text, found, pr, row_data >>
    /\ UNCHANGED runVars

NextExtract ==
    \/ ExtractData
    \/ FormatData

SpecExtract == InitExtract /\ [][NextExtract]_vars

-----------------------------------------------------------------------------
(* Properties of the run (Spec) *)

RaisingPositions == {k \in 1..Len(data) : Raises(data[k].pr)}

ExtractedIds ==
    LET ok == SelectSeq(data, LAMBDA d : ~Raises(d.pr))
    IN  [i \in 1..Len(ok) |-> ok[i].id]

IdsOf(rows) == [i \in 1..Len(rows) |-> rows[i].issue]

Finished == pc = "exit"

OneRecordRaises == Finished /\ Cardinality(RaisingPositions) = 1

AllButTheFailing ==
    /\ status = 0
    /\ Len(csvRows) = Len(data) - 1
    /\ Len(pklData) = Len(data) - 1
    /\ IdsOf(csvRows) = ExtractedIds
    /\ IdsOf(pklData) = ExtractedIds

\* C1 (as amended): when exactly one of the N records raises in extract_data,
\* the run ends with status 0, the CSV file has N-1 data rows and the pickle
\* file N-1 entries (every record but the failing one, in input order), and
\* two skip reports naming the failing identifier are printed: one by the CSV
\* loop and one by the loop of convert_to_pickle.
C1_SkipReportedByEachLoop ==
    OneRecordRaises =>
        LET f == CHOOSE k \in RaisingPositions : TRUE
        IN  /\ AllButTheFailing
            /\ reports = << [pass |-> "csv", id |-> data[f].id],
                            [pass |-> "pickle", id |-> data[f].id] >>

\* C1 as stated: ... and exactly one skip report is printed for the run.
C1_OneSkipReport ==
    OneRecordRaises =>
        LET f == CHOOSE k \in RaisingPositions : TRUE
        IN  /\ AllButTheFailing
            /\ Len(reports) = 1
            /\ reports[1].id = data[f].id

C1_Witness ==
    /\ OneRecordRaises
    /\ Len(data) = 3
    /\ RaisingPositions = {2}
    /\ IdsOf(pklData) = << PrIds[1], PrIds[3] >>

IndexIsPosition(rows) ==
    /\ \A i \in 1..Len(rows) :
          /\ rows[i].idx \in 1..Len(data)
          /\ data[rows[i].idx].id = rows[i].issue
    /\ \A i, j \in 1..Len(rows) : i < j => rows[i].idx < rows[j].idx

\* C7: the index of every record written is its 1-based position in the
\* input mapping (skipped records counted), it is the same in the CSV file
\* and in the pickle file, and both list the records by increasing index.
C7_IndexIsInputPosition ==
    /\ IndexIsPosition(csvRows)
    /\ IndexIsPosition(pickle_data)
    /\ IndexIsPosition(pklData)
    /\ \A i \in 1..Len(csvRows) : \A j \in 1..Len(pklData) :
          csvRows[i].issue = pklData[j].issue => csvRows[i].idx = pklData[j].idx

C7_Witness ==
    /\ Finished
    /\ status = 0
    /\ Len(data) = 3
    /\ RaisingPositions = {1}
    /\ pklData[1].idx = 2
    /\ csvRows[2].idx = 3

FatalInput == argc # 2 \/ inputFile # "ok"

\* C9: with a wrong argument count or an input file that cannot be opened or
\* parsed, the run ends with a non-zero status, and at no point of such a run
\* has the CSV file or the pickle file been created.
C9_FatalBeforeOutput ==
    FatalInput =>
        /\ pc \in {"start", "read", "exit"}
        /\ ~csvCreated
        /\ ~pklCreated
        /\ csvRows = << >>
        /\ pklData = << >>
        /\ (Finished => status = 1)

C9_Witness ==
    /\ Finished
    /\ argc = 2
    /\ inputFile = "invalid"
    /\ status = 1

\* C10 as stated: every run over a readable input mapping, the empty one
\* included, ends with both the CSV file (one row per extracted record) and
\* the pickle file written.
C10_BothOutputsWritten ==
    (Finished /\ ~FatalInput) =>
        /\ status = 0
        /\ csvCreated
        /\ pklCreated
        /\ IdsOf(csvRows) = ExtractedIds
        /\ IdsOf(pklData) = ExtractedIds

-----------------------------------------------------------------------------
(* Properties of extract_data (SpecExtract) *)

Extracted == pc \in {"extracted", "formatted"}

\* the commits whose date is not empty and parses
Parseable(cs) ==
    {k \in 1..Len(cs) : cs[k].date # "" /\ strptime(cs[k].date) # ValueError}

Instant(cs, k) == strptime(cs[k].date)

\* the place of commit k among the parseable ones: behind every newer one
\* and behind the earlier ones of the same instant
Rank(cs, k) ==
    1 + Cardinality({j \in Parseable(cs) :
                        \/ Instant(cs, j) > Instant(cs, k)
                        \/ (Instant(cs, j) = Instant(cs, k) /\ j < k)})

NewestFirstHashes(cs) ==
    [r \in 1..Cardinality(Parseable(cs)) |->
        cs[CHOOSE k \in Parseable(cs) : Rank(cs, k) = r].sha]

AllFiles(cs) == Concat([k \in 1..Len(cs) |-> cs[k].files])

\* C2 as stated: files_changed is the concatenation, in iteration order and
\* with duplicates, of the file lists of all commits, those with an empty or
\* an unparseable date included.
C2_FilesOfAllCommits ==
    Extracted => row_data.files_changed = Join(AllFiles(pr.commits))

\* C3: commit_hashes holds exactly the hashes of the commits whose date
\* parses, newest first, commits of the same instant in iteration order.
C3_HashesNewestFirstStable ==
    Extracted => row_data.commit_hashes = Join(NewestFirstHashes(pr.commits))

C3_Witness ==
    /\ Extracted
    /\ Len(pr.commits) = 3
    /\ pr.commits[1].date = "2024-01-01T00:00:00Z"
    /\ pr.commits[2].date = "2024-01-01T00:00:00Z"
    /\ pr.commits[3].date = "2024-03-01T00:00:00Z"
    /\ row_data.commit_hashes = Join(<< ShaAt(3), ShaAt(1), ShaAt(2) >>)

\* C8: newest_commit_hash and author_name belong to one commit, the one of
\* the latest parsed instant and the earliest such in iteration order; with
\* no parseable commit both are the empty string in the output, whatever
\* author_name the record has.
C8_NewestHashAndAuthor ==
    Extracted =>
        LET cs == pr.commits
            P  == Parseable(cs)
        IN  IF P = {}
            THEN /\ row_data.newest_commit_hash = << >>
                 /\ row_data.author_name = KeyMissing
                 /\ pc = "formatted" =>
                       /\ formatted_data.newest_commit_hash = << >>
                       /\ formatted_data.author_name = << >>
            ELSE \E m \in P :
                 /\ \A j \in P : Instant(cs, j) <= Instant(cs, m)
                 /\ \A j \in P : Instant(cs, j) = Instant(cs, m) => m <= j
                 /\ row_data.newest_commit_hash = cs[m].sha
                 /\ row_data.author_name = cs[m].author_name
                 /\ pc = "formatted" =>
                       /\ formatted_data.newest_commit_hash = cs[m].sha
                       /\ formatted_data.author_name = cs[m].author_name

C8_Witness ==
    /\ pc = "formatted"
    /\ Len(pr.commits) = 3
    /\ pr.commits[1].date = "2024-01-01T00:00:00Z"
    /\ pr.commits[2].date = "2024-03-01T00:00:00Z"
    /\ pr.commits[3].date = "2024-03-01T00:00:00Z"
    /\ pr.author_name = <<"o","w","n">>
    /\ formatted_data.newest_commit_hash = ShaAt(2)
    /\ formatted_data.author_name = AuthorAt(2)

\* C6 as stated: in a pickle entry, comments, files_changed and commit_hashes
\* are the lists extract_data collected, element for element: an empty list
\* when there is nothing, and an element holding " | " stays one element.
C6_ListsAsCollected ==
    pc = "formatted" =>
        LET loop == CommitLoop(pr.commits, [commits |-> << >>, files_changed |-> << >>])
            commits == SortReverse(loop.commits)
        IN  /\ formatted_data.comments = CommentBodies(pr.comments)
            /\ formatted_data.files_changed = loop.files_changed
            /\ formatted_data.commit_hashes = [i \in 1..Len(commits) |-> commits[i][2]]

-----------------------------------------------------------------------------
(* Properties of find_linked_issues (SpecRefs) *)

Returned == pc = "refs_return"

Hash12 == << "#", "1", "2" >>

Closes == keywords[1]

Fixes == keywords[2]

\* C4 (as amended): for "fixes #12 and closes https://github.com/o/r/issues/34"
\* the references are the URL and then "#12", the keywords "closes" and then
\* "fixes": the order of the keyword list, not of the text.
C4_ExampleInKeywordOrder ==
    (Returned /\ body_text = ExampleBody) =>
        /\ found.linked_issues = << Url34, Hash12 >>
        /\ found.description_keywords = << Closes, Fixes >>

\* C4 as stated: the references are "#12" and then the URL, the keywords
\* "fixes" and then "closes".
C4_ExampleInTextOrder ==
    (Returned /\ body_text = ExampleBody) =>
        /\ found.linked_issues = << Hash12, Url34 >>
        /\ found.description_keywords = << Fixes, Closes >>

C4_Witness ==
    /\ Returned
    /\ body_text = ExampleBody
    /\ Len(found.linked_issues) = 2

\* the positions of s at which the pattern of a keyword matches
MatchPositions(keyword, s) ==
    LET low == Lower(s)
    IN  {p \in 1..Len(s) : PatternLen(keyword, s, low, p) > 0}

\* the reference of the match at position p
ReferenceAt(keyword, s, p) ==
    SubSeq(s, p + Len(keyword) + 1, p + PatternLen(keyword, s, Lower(s), p) - 1)

RECURSIVE Ascending(_)
Ascending(S) ==
    IF S = {} THEN << >> ELSE << Min(S) >> \o Ascending(S \ {Min(S)})

KeywordNumber(keyword) == CHOOSE k \in 1..Len(keywords) : keywords[k] = keyword

\* C5: the two lists have the same length; the entries come keyword by
\* keyword in the order of the keyword list; the entries of one keyword are
\* the references of its matches from left to right, so a reference matched
\* under several keywords is there once for each of them; without any match
\* both lists are empty.
C5_ParallelListsByKeyword ==
    Returned =>
        LET refs == found.linked_issues
            kws  == found.description_keywords
        IN  /\ Len(refs) = Len(kws)
            /\ \A i \in 1..Len(kws) : \E k \in 1..Len(keywords) : kws[i] = keywords[k]
            /\ \A i, j \in 1..Len(kws) :
                  i < j => KeywordNumber(kws[i]) <= KeywordNumber(kws[j])
            /\ \A k \in 1..Len(keywords) :
                  LET entries == Ascending({i \in 1..Len(kws) : kws[i] = keywords[k]})
                      places  == Ascending(MatchPositions(keywords[k], body_text))
                  IN  /\ Len(entries) = Len(places)
                      /\ \A n \in 1..Len(entries) :
                            refs[entries[n]] = ReferenceAt(keywords[k], body_text, places[n])
            /\ (\A k \in 1..Len(keywords) : MatchPositions(keywords[k], body_text) = {})
                  => (refs = << >> /\ kws = << >>)

C5_Witness ==
    /\ Returned
    /\ body_text = <<"r","e","s","o","l","v","e","s"," ","#","5"," ",
                     "F","i","x","e","s"," ","#","1","2">>
    /\ found.linked_issues = << Hash12, <<"#","5">>, <<"#","5">> >>
    /\ found.description_keywords = << Fixes, keywords[3], keywords[5] >>

=============================================================================
